---- MODULE Spec2Model ----
(***************************************************************************)
(* Model of the markdown-preview-include expander                          *)
(* (src/source/includeSettings.ts).                                        *)
(*                                                                         *)
(* Text is a sequence of lexemes (tokens).  A token is a string: one       *)
(* punctuation lexeme of the two directive syntaxes (":", "(", ")", "[",   *)
(* "]", "!!!", "include"), a white-space character (" ", "\n"), a complete *)
(* range suffix ("#L1-2"), a complete quote modifier ("{quote}"), a path   *)
(* component, or a word of plain text.  The two regular expressions, the   *)
(* range selector and the quote formatter are computed over these          *)
(* sequences the way the JavaScript computes them over characters.         *)
(***************************************************************************)
EXTENDS Integers, Sequences, FiniteSets, TLC

VARIABLES fs, settings, editorFile, src, rootSrc, pc, stack, log, visited, slc

vars == <<fs, settings, editorFile, src, rootSrc, pc, stack, log, visited, slc>>

(***************************************************************************)
(* Bounds of the model                                                     *)
(***************************************************************************)
MaxContent == 40
MaxLines == 3
MaxLineNo == 3
MaxWordNo == 2

(***************************************************************************)
(* Generic sequence helpers                                                *)
(***************************************************************************)
Min(S) == CHOOSE x \in S : \A y \in S : x <= y
Max(S) == CHOOSE x \in S : \A y \in S : x >= y
Range(s) == {s[i] : i \in 1..Len(s)}

\* s.slice(from) on a string, 1-based inclusive start index
Tail1(s, from) == SubSeq(s, from, Len(s))

\* Array.prototype.slice(start, end) with JavaScript's index normalisation
JsSlice(s, start, end) ==
  LET len == Len(s)
      k == IF start < 0 THEN (IF len + start < 0 THEN 0 ELSE len + start)
           ELSE (IF start > len THEN len ELSE start)
      f == IF end < 0 THEN (IF len + end < 0 THEN 0 ELSE len + end)
           ELSE (IF end > len THEN len ELSE end)
  IN IF f <= k THEN <<>> ELSE SubSeq(s, k + 1, f)

RECURSIVE Join(_, _)
\* Array.prototype.join(sep) of an array of strings
Join(parts, sep) ==
  IF Len(parts) = 0 THEN <<>>
  ELSE IF Len(parts) = 1 THEN parts[1]
  ELSE parts[1] \o sep \o Join(Tail(parts), sep)

IsWs(t) == t \in {" ", "\n"}

RECURSIVE SplitLines(_)
\* content.split(/\r?\n/)
SplitLines(s) ==
  LET nl == {i \in 1..Len(s) : s[i] = "\n"}
  IN IF nl = {} THEN <<s>>
     ELSE <<SubSeq(s, 1, Min(nl) - 1)>> \o SplitLines(Tail1(s, Min(nl) + 1))

RECURSIVE SplitWords(_)
\* line.split(/\s+/): a leading or trailing run of white space leaves an
\* empty string at that end of the array
SplitWords(s) ==
  LET ws == {i \in 1..Len(s) : IsWs(s[i])}
  IN IF ws = {} THEN <<s>>
     ELSE LET i == Min(ws)
              rest == {j \in (i + 1)..Len(s) : ~IsWs(s[j])}
              j == IF rest = {} THEN Len(s) + 1 ELSE Min(rest)
          IN <<SubSeq(s, 1, i - 1)>> \o SplitWords(Tail1(s, j))

\* String.prototype.trim()
Trim(s) ==
  LET keep == {i \in 1..Len(s) : ~IsWs(s[i])}
  IN IF keep = {} THEN <<>> ELSE SubSeq(s, Min(keep), Max(keep))

\* String.prototype.replace(token, by): the first occurrence only
ReplaceFirst(s, tok, by) ==
  LET at == {i \in 1..Len(s) : s[i] = tok}
  IN IF at = {} THEN s
     ELSE SubSeq(s, 1, Min(at) - 1) \o by \o Tail1(s, Min(at) + 1)

(***************************************************************************)
(* Range Selector                                                          *)
(* A range spec is the array spec.split('.') after parseInt: <<line>> or   *)
(* <<line, word>>; <<>> stands for an absent (undefined) spec.             *)
(***************************************************************************)
\* the end of lines.slice(startLine, endLine): "if (endSpec) { endLine =
\* parseInt(endParts[0]) } else { endLine = startLine + 1 }"
endLineExclusive(startLine, endSpec) ==
  IF endSpec # <<>> THEN endSpec[1] - 1 ELSE startLine + 1

endLineOf(startLine, endSpec) ==
  IF endSpec # <<>> THEN endSpec[1] ELSE startLine + 1

sliceNothing(content, startSpec, endSpec) == content

sliceLines(content, startSpec, endSpec) ==
  IF startSpec = <<>> THEN content
  ELSE
    LET lines == SplitLines(content)
        startLine == startSpec[1] - 1
        startWord == IF Len(startSpec) > 1 THEN startSpec[2] ELSE 0
        endLine == endLineOf(startLine, endSpec)
        hasEndWord == endSpec # <<>> /\ Len(endSpec) > 1
        endWord == IF hasEndWord THEN endSpec[2] ELSE 0
        selectedLines == JsSlice(lines, startLine, endLine)
        n == Len(selectedLines)
    IN IF n = 0 THEN <<>>
       ELSE IF startWord > 0 \/ hasEndWord
       THEN IF n = 1
            THEN LET words == SplitWords(selectedLines[1])
                     wordEnd == IF hasEndWord THEN endWord ELSE Len(words)
                 IN Join(JsSlice(words, startWord, wordEnd), <<" ">>)
            ELSE LET words == SplitWords(selectedLines[1])
                     first == Join(JsSlice(words, startWord, Len(words)), <<" ">>)
                     lastWords == SplitWords(selectedLines[n])
                     last == IF hasEndWord
                             THEN Join(JsSlice(lastWords, 0, endWord), <<" ">>)
                             ELSE selectedLines[n]
                 IN Join(<<first>> \o SubSeq(selectedLines, 2, n - 1) \o <<last>>,
                         <<"\n">>)
       ELSE Join(selectedLines, <<"\n">>)

(***************************************************************************)
(* Directive Matcher                                                       *)
(***************************************************************************)
\* The "#L..." suffixes of the documents of this model, with what the
\* capture groups (\d+(?:\.\d+)?) hold after split('.') and parseInt.
RangeTable ==
  { [tok |-> "#L1",       start |-> <<1>>,    end |-> <<>>],
    [tok |-> "#L2",       start |-> <<2>>,    end |-> <<>>],
    [tok |-> "#L1-2",     start |-> <<1>>,    end |-> <<2>>],
    [tok |-> "#L1.1-1.2", start |-> <<1, 1>>, end |-> <<1, 2>>] }

IsRange(t) == \E r \in RangeTable : r.tok = t
RangeOf(t) == CHOOSE r \in RangeTable : r.tok = t

\* \{\s*(noquote|quote)\s*\} under the /i flag: the captured word
ModTable ==
  { [tok |-> "{quote}",   word |-> "quote"],
    [tok |-> "{noquote}", word |-> "noquote"],
    [tok |-> "{QUOTE}",   word |-> "QUOTE"] }

IsMod(t) == \E m \in ModTable : m.tok = t
ModWord(t) == (CHOOSE m \in ModTable : m.tok = t).word

\* String.prototype.toLowerCase() of a captured modifier word
toLowerCase(w) == IF w = "QUOTE" THEN "quote" ELSE w

\* The result of RegExp.exec: index and length are those of regexResult.index
\* and regexResult[0].length; index is 1-based here.
NoMatch ==
  [found |-> FALSE, index |-> 0, length |-> 0, name |-> <<>>,
   start |-> <<>>, end |-> <<>>, quoteOverride |-> ""]

\* \s* : the first position >= p that holds no white space
SkipWs(s, p) ==
  LET stop == {q \in p..Len(s) : ~IsWs(s[q])}
  IN IF stop = {} THEN Len(s) + 1 ELSE Min(stop)

At(s, p) == IF p >= 1 /\ p <= Len(s) THEN s[p] ELSE ""

Found(i, stop, name, range, mod) ==
  [found |-> TRUE, index |-> i, length |-> stop - i, name |-> name,
   start |-> IF IsRange(range) THEN RangeOf(range).start ELSE <<>>,
   end |-> IF IsRange(range) THEN RangeOf(range).end ELSE <<>>,
   quoteOverride |-> IF IsMod(mod) THEN ModWord(mod) ELSE ""]

\* the first position > from holding ")" or a range suffix, or Len(s) + 1
TargetEnd(s, from) ==
  IF \E k \in (from + 1)..Len(s) : s[k] = ")" \/ IsRange(s[k])
  THEN Min({k \in (from + 1)..Len(s) : s[k] = ")" \/ IsRange(s[k])})
  ELSE Len(s) + 1

\* ...\)\s*(?:\{\s*(noquote|quote)\s*\})? with the ")" expected at rp
CommonmarkClose(s, i, lp, tEnd, rp, ws) ==
  IF At(s, rp) = ")"
  THEN Found(i, IF IsMod(At(s, ws)) THEN ws + 1 ELSE ws,
             SubSeq(s, lp + 1, tEnd - 1), At(s, tEnd), At(s, ws))
  ELSE NoMatch

\* \(([^)#]+)(?:#L...)? with the "(" expected at lp
CommonmarkTarget(s, i, lp, tEnd) ==
  IF At(s, lp) = "(" /\ tEnd > lp + 1
  THEN CommonmarkClose(s, i, lp, tEnd, IF IsRange(At(s, tEnd)) THEN tEnd + 1 ELSE tEnd,
                       SkipWs(s, (IF IsRange(At(s, tEnd)) THEN tEnd + 1 ELSE tEnd) + 1))
  ELSE NoMatch

\* (?:\[([^|\]]*)\|?([^\]]*)\])? : the position after an optional bracketed label
AfterLabel(s, i) ==
  IF At(s, i + 1) = "[" /\ \E k \in (i + 2)..Len(s) : s[k] = "]"
  THEN Min({k \in (i + 2)..Len(s) : s[k] = "]"}) + 1
  ELSE i + 1

CommonmarkFrom(s, i, lp) == CommonmarkTarget(s, i, lp, TargetEnd(s, lp))

\* COMMONMARK_PATTERN anchored at position i
CommonmarkAt(s, i) ==
  IF At(s, i) # ":" THEN NoMatch ELSE CommonmarkFrom(s, i, AfterLabel(s, i))

MarkdownItMod(s, r1, r2, r3, r4) ==
  [ok |-> At(s, r2) = ")" /\ At(s, r4) = "!!!", stop |-> r4 + 1,
   range |-> At(s, r1), mod |-> At(s, r3)]

MarkdownItParen(s, r1, r2, r3) ==
  MarkdownItMod(s, r1, r2, r3, IF IsMod(At(s, r3)) THEN SkipWs(s, r3 + 1) ELSE r3)

MarkdownItRange(s, r1, r2) == MarkdownItParen(s, r1, r2, SkipWs(s, r2 + 1))

\* The tail of MARKDOWN_IT_PATTERN after the lazy target, tried at position p:
\* (?:\s*#L..)?\s*\)\s*(?:\{..\})?\s*\!{3}
MarkdownItTail(s, p) ==
  MarkdownItRange(s, SkipWs(s, p),
                  IF IsRange(At(s, SkipWs(s, p))) THEN SkipWs(s, SkipWs(s, p) + 1)
                  ELSE SkipWs(s, p))

MarkdownItFound(s, i, q, p, tail) ==
  Found(i, tail.stop, SubSeq(s, q, p - 1), tail.range, tail.mod)

MarkdownItLazy(s, i, q, ps) == MarkdownItFound(s, i, q, Min(ps), MarkdownItTail(s, Min(ps)))

MarkdownItGreedy(s, i, cands, q) ==
  MarkdownItLazy(s, i, q, {c[2] : c \in {d \in cands : d[1] = q}})

MarkdownItPick(s, i, cands) ==
  IF cands = {} THEN NoMatch ELSE MarkdownItGreedy(s, i, cands, Max({c[1] : c \in cands}))

\* \(\s*(.+?) : \s* is greedy and gives back; (.+?) is lazy and never takes "\n"
MarkdownItTarget(s, i, p2, qmax) ==
  MarkdownItPick(s, i,
    {c \in ((p2 + 1)..qmax) \X ((p2 + 2)..Len(s)) :
       /\ c[2] > c[1]
       /\ \A k \in c[1]..(c[2] - 1) : s[k] # "\n"
       /\ MarkdownItTail(s, c[2]).ok})

MarkdownItOpen(s, i, p2) ==
  IF At(s, p2) = "(" THEN MarkdownItTarget(s, i, p2, SkipWs(s, p2 + 1)) ELSE NoMatch

MarkdownItWord(s, i, p1) ==
  IF At(s, p1) = "include" THEN MarkdownItOpen(s, i, SkipWs(s, p1 + 1)) ELSE NoMatch

\* MARKDOWN_IT_PATTERN anchored at position i
MarkdownItAt(s, i) ==
  IF At(s, i) # "!!!" THEN NoMatch ELSE MarkdownItWord(s, i, SkipWs(s, i + 1))

\* COMMONMARK_PATTERN.exec(s): the leftmost match
COMMONMARK_PATTERN(s) ==
  IF \E i \in 1..Len(s) : CommonmarkAt(s, i).found
  THEN CommonmarkAt(s, Min({i \in 1..Len(s) : s[i] = ":" /\ CommonmarkAt(s, i).found}))
  ELSE NoMatch

\* MARKDOWN_IT_PATTERN.exec(s): the leftmost match
MARKDOWN_IT_PATTERN(s) ==
  IF \E i \in 1..Len(s) : MarkdownItAt(s, i).found
  THEN MarkdownItAt(s, Min({i \in 1..Len(s) : s[i] = "!!!" /\ MarkdownItAt(s, i).found}))
  ELSE NoMatch

(***************************************************************************)
(* Quote Formatter                                                         *)
(***************************************************************************)
\* The number of characters of a lexeme
CharLen(t) ==
  CASE t = "!!!" -> 3
    [] t = "include" -> 7
    [] t \in {"#L1", "#L2"} -> 3
    [] t = "#L1-2" -> 5
    [] t = "#L1.1-1.2" -> 9
    [] t \in {"{quote}", "{QUOTE}"} -> 7
    [] t = "{noquote}" -> 9
    [] OTHER -> 1

RECURSIVE StrLen(_)
StrLen(s) == IF s = <<>> THEN 0 ELSE CharLen(Head(s)) + StrLen(Tail(s))

Digit(d) == <<"0", "1", "2", "3", "4", "5", "6", "7", "8", "9">>[d + 1]

RECURSIVE toString(_)
\* Number.prototype.toString(): the decimal digits
toString(n) == IF n < 10 THEN <<Digit(n)>> ELSE toString(n \div 10) \o <<Digit(n % 10)>>

RECURSIVE WordColumn(_, _, _, _)
\* the loop "for (i = 0; i < wordOffset && i < words.length; i++)" of
\* formatQuote, entered with i and the charPos accumulated so far
WordColumn(words, wordOffset, i, charPos) ==
  IF i < wordOffset /\ i < Len(words)
  THEN LET w == StrLen(words[i + 1])
           sp == IF i < wordOffset - 1 \/ w > 0 THEN 1 ELSE 0
       IN WordColumn(words, wordOffset, i + 1, charPos + w + sp)
  ELSE charPos

\* path.basename
basename(p) == IF p = <<>> THEN <<>> ELSE <<p[Len(p)]>>

formatQuote(content, sourcePath, sourceLabel, includeSource, startLine, originalContent) ==
  LET lines == SplitLines(content)
      quoted == Join([i \in 1..Len(lines) |->
                        IF Trim(lines[i]) = <<>> THEN <<">">>
                        ELSE <<">", " ">> \o lines[i]], <<"\n">>)
      lineNumber == IF startLine # <<>> THEN toString(startLine[1]) ELSE <<"1">>
      origLines == SplitLines(originalContent)
      lineIndex == IF startLine # <<>> THEN startLine[1] - 1 ELSE 0
      columnNumber ==
        IF startLine # <<>> /\ Len(startLine) > 1 /\ originalContent # <<>>
           /\ lineIndex >= 0 /\ lineIndex < Len(origLines)
        THEN toString(WordColumn(SplitWords(origLines[lineIndex + 1]), startLine[2], 0, 1))
        ELSE <<"1">>
      vsCodeUri == <<"vscode", ":", "//file/">> \o sourcePath \o <<":">> \o lineNumber
                   \o <<":">> \o columnNumber
      sourceText == <<"*">> \o sourceLabel \o <<":", " ", "[">> \o basename(sourcePath)
                    \o <<"]", "(", "<">> \o vsCodeUri \o <<">", ")", "*">>
  IN IF ~includeSource THEN quoted
     ELSE quoted \o <<"\n", ">", " ", "\n", ">", " ">> \o sourceText

(***************************************************************************)
(* Settings and their defaults                                             *)
(***************************************************************************)
DEFAULT_COMMONMARK_REGEX == TRUE
DEFAULT_MARKDOWN_IT_REGEX == TRUE
DEFAULT_NOT_FOUND_MESSAGE == <<"File", " ", "'", "{{FILE}}", "'", " ", "not", " ", "found">>
DEFAULT_CIRCULAR_MESSAGE ==
  <<"Circular", " ", "reference", " ", "between", " ", "'", "{{FILE}}", "'", " ",
    "and", " ", "'", "{{PARENT}}", "'">>
DEFAULT_QUOTE_FORMATTING == FALSE
DEFAULT_QUOTE_INCLUDE_SOURCE == TRUE
DEFAULT_QUOTE_SOURCE_LABEL == <<"Source">>

\* an optional boolean setting: "undefined", "true" or "false";
\* settings.x === undefined ? DEFAULT : settings.x
OrDefault(v, default) == IF v = "undefined" THEN default ELSE v = "true"

\* an optional string setting: settings.x || DEFAULT (the empty string and
\* undefined are both falsy)
OrDefaultText(v, default) == IF v = <<>> THEN default ELSE v

commonmarkEnabled(st) == OrDefault(st.commonmarkRegex, DEFAULT_COMMONMARK_REGEX)
markdownItEnabled(st) == OrDefault(st.markdownItRegex, DEFAULT_MARKDOWN_IT_REGEX)
globalQuote(st) == OrDefault(st.quoteFormatting, DEFAULT_QUOTE_FORMATTING)
includeSource(st) == OrDefault(st.quoteIncludeSource, DEFAULT_QUOTE_INCLUDE_SOURCE)
sourceLabel(st) == OrDefaultText(st.quoteSourceLabel, DEFAULT_QUOTE_SOURCE_LABEL)
notFoundMessage(st) == OrDefaultText(st.notFoundMessage, DEFAULT_NOT_FOUND_MESSAGE)
circularMessage(st) == OrDefaultText(st.circularMessage, DEFAULT_CIRCULAR_MESSAGE)

shouldQuoteGlobalFirst(quoteOverride, global) ==
  global \/ toLowerCase(quoteOverride) = "quote"

\* quoteOverride ? quoteOverride.toLowerCase() === 'quote' : globalQuote
shouldQuote(quoteOverride, global) ==
  IF quoteOverride # "" THEN toLowerCase(quoteOverride) = "quote" ELSE global

(***************************************************************************)
(* File system capability: one folder "/d/" holding the files of Names     *)
(***************************************************************************)
Folder == <<"/d/">>
Names == {"r", "a", "b", "c"}
PathOf(n) == Folder \o <<n>>

\* path.dirname
dirname(p) == SubSeq(p, 1, Len(p) - 1)

\* path.resolve(parentFolder, childName): an absolute name stands for itself,
\* a relative one is joined to the folder; "./" segments are normalised away
resolve(parentFolder, childName) ==
  LET joined == IF childName # <<>> /\ childName[1] = "/d/" THEN childName
                ELSE parentFolder \o childName
      keep == {i \in 1..Len(joined) : joined[i] # "./"}
  IN [k \in 1..Cardinality(keep) |->
        joined[CHOOSE i \in keep : Cardinality({j \in keep : j <= i}) = k]]

IsFilePath(p) == Len(p) = 2 /\ p[1] = "/d/" /\ p[2] \in Names

\* fs.existsSync: a file of the folder that is on disk, or the folder itself
existsSync(disk, p) == p = Folder \/ (IsFilePath(p) /\ disk[p[2]].exists)

\* fs.readFileSync can succeed only on a file; on the folder it throws
readable(disk, p) == IsFilePath(p) /\ disk[p[2]].exists

indexOfVisited(processedFiles, childFile) ==
  \/ \E i \in 1..Len(processedFiles) : processedFiles[i] = childFile
  \/ \E e \in log : e.kind = "read" /\ e.child = childFile

\* processedFiles.indexOf(childFile) !== -1
indexOfFound(processedFiles, childFile) ==
  \E i \in 1..Len(processedFiles) : processedFiles[i] = childFile

spliceDropTail(parentContent, m, childContent) ==
  SubSeq(parentContent, 1, m.index - 1) \o childContent

\* parentContent.slice(0, index) + childContent + parentContent.slice(index + length)
splice(parentContent, m, childContent) ==
  SubSeq(parentContent, 1, m.index - 1) \o childContent
    \o Tail1(parentContent, m.index + m.length)

notFoundText(st, childFile) == ReplaceFirst(notFoundMessage(st), "{{FILE}}", childFile)

circularTextSwapped(st, childFile, parentFile) ==
  ReplaceFirst(ReplaceFirst(circularMessage(st), "{{FILE}}", parentFile),
               "{{PARENT}}", childFile)

circularText(st, childFile, parentFile) ==
  ReplaceFirst(ReplaceFirst(circularMessage(st), "{{FILE}}", childFile),
               "{{PARENT}}", parentFile)

(***************************************************************************)
(* Documents of the model                                                  *)
(***************************************************************************)
StyleA(n) == <<":", "(", n, ")">>
StyleB(n) == <<"!!!", "include", "(", n, ")", "!!!">>

RootDocs ==
  { <<"t">>,
    <<"t", "\n">> \o StyleA("r"),
    <<":", "(", "./", "r", ")">>,
    StyleA("a") \o <<"u">> \o StyleB("b"),
    StyleB("b") \o <<"u">> \o StyleA("a"),
    StyleA("x") \o <<"\n">> \o StyleA("a"),
    StyleB("x") \o StyleB("r"),
    <<":">> \o StyleB("c"),
    StyleA("b"),
    <<":", "(", "a", ")", "{quote}">>,
    <<":", "(", "a", ")", " ", "{noquote}", "u">>,
    <<"!!!", " ", "include", "(", " ", "a", ")", "{QUOTE}", "!!!">>,
    <<":", "(", "a", "#L2", ")">>,
    <<"!!!", "include", "(", "a", " ", "#L1.1-1.2", ")", "!!!">>,
    <<":", "[", "t", "]", "(", "a", "#L1-2", ")", "{quote}">>,
    <<":", "(", " ", ")">> }

ADocs ==
  { <<"t">>,
    StyleA("c"),
    StyleA("b") \o <<"\n">> \o <<"u", " ", "t">>,
    <<" ", "t", " ", "u", "\n">> \o StyleB("x") }

BDocs ==
  { <<"u">>,
    StyleA("a"),
    StyleB("c"),
    <<":">> \o StyleB("c") }

CDocs ==
  { <<"t">>,
    <<"(", "b", ")">>,
    StyleA("a") }

Absent == [exists |-> FALSE, content |-> <<>>]
OnDisk(docs) == {[exists |-> TRUE, content |-> d] : d \in docs}

NoSettings ==
  [commonmarkRegex |-> "undefined", markdownItRegex |-> "undefined",
   notFoundMessage |-> <<>>, circularMessage |-> <<>>,
   quoteFormatting |-> "undefined", quoteIncludeSource |-> "undefined",
   quoteSourceLabel |-> <<>>]

SettingsSet ==
  { NoSettings,
    [NoSettings EXCEPT !.commonmarkRegex = "false"],
    [NoSettings EXCEPT !.markdownItRegex = "false"],
    [NoSettings EXCEPT !.quoteFormatting = "true", !.quoteIncludeSource = "false"],
    [NoSettings EXCEPT !.quoteFormatting = "true", !.commonmarkRegex = "true",
                       !.quoteSourceLabel = <<"Src">>],
    [NoSettings EXCEPT !.quoteFormatting = "false",
                       !.notFoundMessage = <<"missing", " ", "{{FILE}}">>,
                       !.circularMessage = <<"loop", " ", "{{PARENT}}", " ", "{{FILE}}">>] }

(***************************************************************************)
(* State                                                                   *)
(*   fs          the files of the folder: exists, content                  *)
(*   settings    the IncludeSettings given to Include()                    *)
(*   editorFile  vscode.window.activeTextEditor: "undefined", "nofile"     *)
(*               (document.fileName undefined) or "file"                   *)
(*   src         state.src of the markdown-it core state                   *)
(*   rootSrc     history: state.src when the rule was entered              *)
(*   pc          "idle", "running", "done", "failed" (an exception left    *)
(*               trigger), "skipped", "overflow" (the model's length bound)*)
(*   stack       the call stack of execute(): one frame per call           *)
(*   log         history: the resolution steps taken so far                *)
(*   visited     history: the call stacks this run has passed through      *)
(*   slc         scratch of the Range Selector specification               *)
(***************************************************************************)
RootFile == PathOf("r")

NoSlice == [content |-> <<>>, startSpec |-> <<>>, endSpec |-> <<>>,
            result |-> <<>>, applied |-> FALSE]

enterNoPush(processedFiles, parentFile) == processedFiles

\* processedFiles === undefined ? [] : processedFiles.slice(), then push(parentFile)
enterProcessed(processedFiles, parentFile) == Append(processedFiles, parentFile)

\* the locals of a call execute(parentContent, parentFile, processedFiles)
NewFrame(parentContent, parentFile, processedFiles) ==
  [content |-> parentContent, file |-> parentFile,
   processedFiles |-> enterProcessed(processedFiles, parentFile),
   phase |-> "A", m |-> NoMatch, style |-> "", originalContent |-> <<>>,
   didB |-> FALSE]

Init ==
  /\ editorFile \in {"undefined", "nofile", "file"}
  /\ src \in RootDocs
  /\ settings \in SettingsSet
  /\ \E dr \in {Absent, [exists |-> TRUE, content |-> <<"t">>]},
        da \in OnDisk(ADocs) \cup {Absent},
        db \in OnDisk(BDocs) \cup {Absent},
        dc \in OnDisk(CDocs) \cup {Absent} :
       /\ fs = ("r" :> dr) @@ ("a" :> da) @@ ("b" :> db) @@ ("c" :> dc)
       /\ editorFile # "file" =>
            settings = NoSettings /\ dr = Absent /\ db = Absent /\ dc = Absent
       /\ settings # NoSettings => dr # Absent
  /\ rootSrc = src
  /\ pc = "idle"
  /\ stack = <<>>
  /\ log = {}
  /\ visited = {}
  /\ slc = NoSlice

(***************************************************************************)
(* Resolver/Expander                                                       *)
(***************************************************************************)
Top == stack[Len(stack)]

Exec(style, s) == IF style = "A" THEN COMMONMARK_PATTERN(s) ELSE MARKDOWN_IT_PATTERN(s)

styleEnabledAlways(st, style) ==
  IF style = "A" THEN DEFAULT_COMMONMARK_REGEX ELSE DEFAULT_MARKDOWN_IT_REGEX

styleEnabled(st, style) ==
  IF style = "A" THEN commonmarkEnabled(st) ELSE markdownItEnabled(st)

\* the condition of "if (enabled) { while ((regexResult = PATTERN.exec(parentContent)))"
loopContinues(st, style, parentContent) ==
  styleEnabled(st, style) /\ Exec(style, parentContent).found

\* what follows a style's loop in execute: the next loop, then the return
afterLoop(style) == IF style = "A" THEN "B" ELSE "ret"

\* path.resolve(parentFolder, childName) with childName = regexResult[k].trim()
childFileOf(parentFile, m) == resolve(dirname(parentFile), Trim(m.name))

branchCycleFirst(disk, processedFiles, childFile) ==
  IF indexOfFound(processedFiles, childFile) THEN "circular"
  ELSE IF ~existsSync(disk, childFile) THEN "notfound"
  ELSE "read"

\* the if / else-if / else of replace()
branch(disk, processedFiles, childFile) ==
  IF ~existsSync(disk, childFile) THEN "notfound"
  ELSE IF indexOfFound(processedFiles, childFile) THEN "circular"
  ELSE "read"

InLoop(style) ==
  /\ pc = "running"
  /\ stack # <<>>
  /\ Top.phase = style

Chain == [i \in 1..Len(stack) |-> stack[i].file]

Event(kind, style, m, childFile, raw, subst, after, quoted) ==
  [kind |-> kind, style |-> style, depth |-> Len(stack), parent |-> Top.file,
   child |-> childFile, ancestors |-> Chain, processedFiles |-> Top.processedFiles,
   before |-> Top.content, m |-> m, raw |-> raw, subst |-> subst, after |-> after,
   quoted |-> quoted, didB |-> Top.didB]

\* markdown.core.ruler 'include': the rule is entered
trigger ==
  /\ pc = "idle"
  /\ IF editorFile = "file"
     THEN /\ stack' = <<NewFrame(src, RootFile, <<>>)>>
          /\ pc' = "running"
     ELSE /\ stack' = stack
          /\ pc' = "skipped"
  /\ UNCHANGED <<fs, settings, editorFile, rootSrc, src, log, visited, slc>>

\* a style's loop of execute ends: the style is disabled or nothing matches
LoopExit ==
  \E style \in {"A", "B"} :
    /\ InLoop(style)
    /\ ~loopContinues(settings, style, Top.content)
    /\ stack' = [stack EXCEPT ![Len(stack)].phase = afterLoop(style)]
    /\ visited' = visited \cup {stack}
    /\ UNCHANGED <<fs, settings, editorFile, rootSrc, src, pc, log, slc>>

\* replace(): a substitution made without reading (not found, circular)
SubstituteAs(style, kind, m, childFile, text, after) ==
  IF Len(after) > MaxContent
  THEN /\ pc' = "overflow"
       /\ UNCHANGED <<stack, log, visited>>
  ELSE /\ stack' = [stack EXCEPT ![Len(stack)].content = after,
                                 ![Len(stack)].didB = @ \/ style = "B"]
       /\ log' = log \cup {Event(kind, style, m, childFile, <<>>, text, after, FALSE)}
       /\ visited' = visited \cup {stack}
       /\ pc' = pc

Substitute(style, kind, m, childFile, text) ==
  SubstituteAs(style, kind, m, childFile, text, splice(Top.content, m, text))

NotFoundAt(style, m, childFile) ==
  /\ branch(fs, Top.processedFiles, childFile) = "notfound"
  /\ Substitute(style, "notfound", m, childFile, notFoundText(settings, childFile))

CircularAt(style, m, childFile) ==
  /\ branch(fs, Top.processedFiles, childFile) = "circular"
  /\ Substitute(style, "circular", m, childFile,
                circularText(settings, childFile, Top.file))

\* replace(): the file is read and sliced, and execute is called on the slice
Call(style, m, childFile, originalContent, childContent) ==
  /\ stack' = Append(
       [stack EXCEPT ![Len(stack)].m = m,
                     ![Len(stack)].style = style,
                     ![Len(stack)].originalContent = originalContent],
       NewFrame(childContent, childFile, Top.processedFiles))
  /\ log' = log \cup {Event("read", style, m, childFile, originalContent,
                            childContent, <<>>, FALSE)}
  /\ visited' = visited \cup {stack}

ReadAt(style, m, childFile) ==
  /\ branch(fs, Top.processedFiles, childFile) = "read"
  /\ readable(fs, childFile)
  /\ Call(style, m, childFile, fs[childFile[2]].content,
          sliceLines(fs[childFile[2]].content, m.start, m.end))

ThrowAt(style, m, childFile) ==
  /\ branch(fs, Top.processedFiles, childFile) = "read"
  /\ log' = log \cup {Event("readfail", style, m, childFile, <<>>, <<>>, <<>>, FALSE)}

ReplaceNotFound ==
  \E style \in {"A", "B"} :
    /\ InLoop(style)
    /\ loopContinues(settings, style, Top.content)
    /\ \E m \in {Exec(style, Top.content)} :
         NotFoundAt(style, m, childFileOf(Top.file, m))
    /\ UNCHANGED <<fs, settings, editorFile, rootSrc, src, slc>>

ReplaceCircular ==
  \E style \in {"A", "B"} :
    /\ InLoop(style)
    /\ loopContinues(settings, style, Top.content)
    /\ \E m \in {Exec(style, Top.content)} :
         CircularAt(style, m, childFileOf(Top.file, m))
    /\ UNCHANGED <<fs, settings, editorFile, rootSrc, src, slc>>

ReplaceRead ==
  \E style \in {"A", "B"} :
    /\ InLoop(style)
    /\ loopContinues(settings, style, Top.content)
    /\ \E m \in {Exec(style, Top.content)} :
         ReadAt(style, m, childFileOf(Top.file, m))
    /\ UNCHANGED <<fs, settings, editorFile, rootSrc, src, pc, slc>>

storePartial(oldSrc, threw, partial, result) == IF threw THEN partial ELSE result

\* state.src = execute(state.src, file): what state.src holds afterwards
storeSrc(oldSrc, threw, partial, result) == IF threw THEN oldSrc ELSE result

\* fs.readFileSync throws: the exception leaves every frame and trigger
ReadThrows ==
  \E style \in {"A", "B"} :
    /\ InLoop(style)
    /\ loopContinues(settings, style, Top.content)
    /\ \E m \in {Exec(style, Top.content)} :
         ThrowAt(style, m, childFileOf(Top.file, m))
    /\ src' = storeSrc(src, TRUE, stack[1].content, <<>>)
    /\ stack' = <<>>
    /\ pc' = "failed"
    /\ UNCHANGED <<fs, settings, editorFile, rootSrc, visited, slc>>

\* execute returns to replace(): the expansion is quoted if asked for and
\* spliced into the caller's content
Return(parent, expanded, quote, childContent, after) ==
  IF Len(after) > MaxContent
  THEN /\ pc' = "overflow"
       /\ UNCHANGED <<stack, log, visited>>
  ELSE /\ stack' = Append(SubSeq(stack, 1, Len(stack) - 2),
                          [parent EXCEPT !.content = after, !.m = NoMatch,
                                         !.style = "", !.originalContent = <<>>,
                                         !.didB = @ \/ parent.style = "B"])
       /\ log' = log \cup
            {[kind |-> "return", style |-> parent.style, depth |-> Len(stack) - 1,
              parent |-> parent.file, child |-> Top.file,
              ancestors |-> SubSeq(Chain, 1, Len(stack) - 1),
              processedFiles |-> parent.processedFiles,
              before |-> parent.content, m |-> parent.m, raw |-> expanded,
              subst |-> childContent, after |-> after, quoted |-> quote,
              didB |-> parent.didB]}
       /\ visited' = visited \cup {stack}
       /\ pc' = pc

\* the childContent that replace() splices after execute has returned
quotedOrNot(parent, expanded, quote) ==
  IF quote
  THEN formatQuote(expanded, Top.file, sourceLabel(settings), includeSource(settings),
                   parent.m.start, parent.originalContent)
  ELSE expanded

Spliced(parent, expanded, quote, childContent) ==
  Return(parent, expanded, quote, childContent,
         splice(parent.content, parent.m, childContent))

ReturnTo(parent, expanded, quote) ==
  Spliced(parent, expanded, quote, quotedOrNot(parent, expanded, quote))

ReturnChild ==
  /\ pc = "running"
  /\ Len(stack) > 1
  /\ Top.phase = "ret"
  /\ ReturnTo(stack[Len(stack) - 1], Top.content,
              shouldQuote(stack[Len(stack) - 1].m.quoteOverride, globalQuote(settings)))
  /\ UNCHANGED <<fs, settings, editorFile, rootSrc, src, slc>>

\* the outermost execute returns to trigger, which stores the result
ReturnRoot ==
  /\ pc = "running"
  /\ Len(stack) = 1
  /\ Top.phase = "ret"
  /\ src' = storeSrc(src, FALSE, Top.content, Top.content)
  /\ stack' = <<>>
  /\ pc' = "done"
  /\ UNCHANGED <<fs, settings, editorFile, rootSrc, log, visited, slc>>

Next ==
  \/ trigger
  \/ LoopExit
  \/ ReplaceNotFound
  \/ ReplaceCircular
  \/ ReplaceRead
  \/ ReadThrows
  \/ ReturnChild
  \/ ReturnRoot

Spec == Init /\ [][Next]_vars

(***************************************************************************)
(* The Range Selector on its own: sliceLines applied to one text and one   *)
(* pair of range specs                                                     *)
(***************************************************************************)
LineSet ==
  { <<"a", " ", "b", " ", "c">>,
    <<" ", "d", " ", " ", "e">>,
    <<>> }

Texts == UNION {[1..n -> LineSet] : n \in 1..MaxLines}

Specs == {<<l>> : l \in 0..MaxLineNo} \cup ((0..MaxLineNo) \X (0..MaxWordNo))

InitSlice ==
  /\ \E t \in Texts, st \in Specs, en \in Specs \cup {<<>>} :
       slc = [content |-> Join(t, <<"\n">>), startSpec |-> st, endSpec |-> en,
              result |-> <<>>, applied |-> FALSE]
  /\ fs = [n \in Names |-> Absent]
  /\ settings = NoSettings
  /\ editorFile = "undefined"
  /\ src = <<>>
  /\ rootSrc = <<>>
  /\ pc = "slice"
  /\ stack = <<>>
  /\ log = {}
  /\ visited = {}

ApplySlice ==
  /\ pc = "slice"
  /\ ~slc.applied
  /\ slc' = [slc EXCEPT !.result = sliceLines(slc.content, slc.startSpec, slc.endSpec),
                        !.applied = TRUE]
  /\ UNCHANGED <<fs, settings, editorFile, src, rootSrc, pc, stack, log, visited>>

NextSlice == ApplySlice

SpecSlice == InitSlice /\ [][NextSlice]_vars

(***************************************************************************)
(* Vocabulary of the properties                                            *)
(***************************************************************************)
InSeq(q, x) == \E i \in 1..Len(q) : q[i] = x

\* the path names something on disk: a file of the folder, or the folder
PathExists(p) == p = Folder \/ \E n \in Names : p = PathOf(n) /\ fs[n].exists

RECURSIVE Fill(_, _, _)
\* a message template with its placeholders filled in
Fill(template, file, parent) ==
  IF template = <<>> THEN <<>>
  ELSE (IF Head(template) = "{{FILE}}" THEN file
        ELSE IF Head(template) = "{{PARENT}}" THEN parent
        ELSE <<Head(template)>>) \o Fill(Tail(template), file, parent)

NotFoundTemplate ==
  IF settings.notFoundMessage = <<>>
  THEN <<"File", " ", "'", "{{FILE}}", "'", " ", "not", " ", "found">>
  ELSE settings.notFoundMessage

CircularTemplate ==
  IF settings.circularMessage = <<>>
  THEN <<"Circular", " ", "reference", " ", "between", " ", "'", "{{FILE}}", "'",
         " ", "and", " ", "'", "{{PARENT}}", "'">>
  ELSE settings.circularMessage

\* the steps that resolve one directive
Resolutions == {e \in log : e.kind \in {"notfound", "circular", "read", "readfail"}}

\* the step put text in place of exactly the matched span
SpanReplaced(e, text) ==
  e.after = SubSeq(e.before, 1, e.m.index - 1) \o text
              \o SubSeq(e.before, e.m.index + e.m.length, Len(e.before))

BothStyles == settings.commonmarkRegex # "false" /\ settings.markdownItRegex # "false"

Terminated == pc \in {"done", "failed", "skipped"}

\* C1: a directive whose resolved target exists and lies on the chain of
\* documents from the root down to the document being expanded is replaced by
\* the circular message, {{FILE}} the target and {{PARENT}} that document, and
\* the target is not read; a root whose only directive names the root itself
\* yields that message once, with both placeholders the root's path.
C1_CircularOnChain ==
  /\ \A e \in Resolutions :
       PathExists(e.child) /\ InSeq(e.ancestors, e.child) =>
         /\ e.kind = "circular"
         /\ e.subst = Fill(CircularTemplate, e.child, e.parent)
         /\ SpanReplaced(e, e.subst)
  /\ pc = "done" /\ rootSrc = <<"t", "\n">> \o StyleA("r") /\ fs["r"].exists
       /\ settings.commonmarkRegex # "false" =>
         src = <<"t", "\n">> \o Fill(CircularTemplate, RootFile, RootFile)

\* mutual inclusion a -> b -> a: the message is produced in b, FILE a, PARENT b
C1_Witness ==
  /\ pc = "done"
  /\ \E e \in log : /\ e.kind = "circular"
                    /\ e.child = PathOf("a")
                    /\ e.parent = PathOf("b")
                    /\ e.ancestors = <<RootFile, PathOf("a"), PathOf("b")>>

\* C2: only a file on the current root-to-node chain is reported circular;
\* in the diamond root -> a -> c, root -> b -> c the file c is read and
\* expanded at both places and no circular message appears.
C2_DiamondNotCircular ==
  /\ \A e \in log : e.kind = "circular" => InSeq(e.ancestors, e.child)
  /\ pc = "done" /\ settings = NoSettings
       /\ rootSrc = StyleA("a") \o <<"u">> \o StyleB("b")
       /\ fs["a"] = [exists |-> TRUE, content |-> StyleA("c")]
       /\ fs["b"] = [exists |-> TRUE, content |-> StyleB("c")]
       /\ fs["c"] = [exists |-> TRUE, content |-> <<"t">>] =>
         /\ src = <<"t", "u", "t">>
         /\ \A e \in log : e.kind # "circular"

C2_Witness ==
  /\ pc = "done"
  /\ \E e \in log : e.kind = "read" /\ e.child = PathOf("c") /\ e.parent = PathOf("a")
  /\ \E e \in log : e.kind = "read" /\ e.child = PathOf("c") /\ e.parent = PathOf("b")
  /\ \E e \in log : e.kind = "return" /\ e.child = PathOf("b") /\ e.raw = <<"t">>

\* C5: a directive whose resolved target does not exist is replaced by the
\* not-found message with {{FILE}} the resolved path, also when that path is
\* on the chain of ancestors; the target is not read, and the directives after
\* it in the same document are still resolved.
C5_NotFound ==
  /\ \A e \in Resolutions :
       ~PathExists(e.child) =>
         /\ e.kind = "notfound"
         /\ e.subst = Fill(NotFoundTemplate, e.child, e.parent)
         /\ SpanReplaced(e, e.subst)
  /\ pc = "done" /\ settings = NoSettings
       /\ rootSrc = StyleA("x") \o <<"\n">> \o StyleA("a")
       /\ fs["a"] = [exists |-> TRUE, content |-> <<"t">>] =>
         \* the Style A span takes the white space after ")" with it
         src = Fill(NotFoundTemplate, PathOf("x"), RootFile) \o <<"t">>

\* the root document is not on disk and includes itself: not found, not circular
C5_Witness ==
  /\ pc = "done"
  /\ \E e \in log : e.kind = "notfound" /\ e.child = RootFile /\ InSeq(e.ancestors, e.child)
  /\ \E e \in log : e.kind = "notfound" /\ e.child = PathOf("x")

\* C8: the expansion of a read target is block-quoted exactly when the
\* directive carries {quote}, or carries no modifier while quoteFormatting is
\* true; {noquote} wins over quoteFormatting = true and {quote} over false.
\* A not-found or circular message is never quoted.
WantsQuote(e) ==
  IF e.m.quoteOverride \in {"quote", "QUOTE"} THEN TRUE
  ELSE IF e.m.quoteOverride = "noquote" THEN FALSE
  ELSE settings.quoteFormatting = "true"

\* every line of raw appears in text behind a block-quote marker
QuoteOf(text, raw) ==
  LET tl == SplitLines(text)
      rl == SplitLines(raw)
  IN /\ Len(tl) >= Len(rl)
     /\ \A i \in 1..Len(rl) :
          tl[i] = (IF \A k \in 1..Len(rl[i]) : IsWs(rl[i][k]) THEN <<">">>
                   ELSE <<">", " ">> \o rl[i])
     /\ \A i \in 1..Len(tl) : tl[i] # <<>> /\ tl[i][1] = ">"

C8_QuotePrecedence ==
  /\ \A e \in log :
       e.kind = "return" =>
         /\ SpanReplaced(e, e.subst)
         /\ IF WantsQuote(e) THEN QuoteOf(e.subst, e.raw) ELSE e.subst = e.raw
  /\ \A e \in log :
       e.kind \in {"notfound", "circular"} =>
         e.subst \in {Fill(NotFoundTemplate, e.child, e.parent),
                      Fill(CircularTemplate, e.child, e.parent)}

C8_Witness ==
  /\ pc = "done"
  /\ \/ /\ settings.quoteFormatting = "true"
        /\ \E e \in log : /\ e.kind = "return" /\ e.m.quoteOverride = "noquote"
                          /\ e.subst = e.raw /\ e.raw = <<"t">>
     \/ /\ settings.quoteFormatting # "true"
        /\ \E e \in log : /\ e.kind = "return" /\ e.m.quoteOverride = "quote"
                          /\ e.raw = <<"t">> /\ SubSeq(e.subst, 1, 3) = <<">", " ", "t">>
     \/ /\ settings.quoteFormatting = "true"
        /\ \E e \in log : e.kind = "notfound" /\ e.m.quoteOverride = "quote"

\* C9: with both styles enabled a document holding one Style A and one
\* Style B directive has both replaced by their targets' expansions, in
\* either order of appearance; in every frame no Style A directive is resolved
\* once a Style B directive of that frame has been, and the first Style B
\* directive is resolved only when no Style A directive is left; a disabled
\* style is never resolved at any depth.
C9_TwoStyles ==
  /\ pc = "done" /\ BothStyles /\ settings.quoteFormatting # "true"
       /\ fs["a"] = [exists |-> TRUE, content |-> <<"t">>]
       /\ fs["b"] = [exists |-> TRUE, content |-> <<"u">>] =>
         /\ rootSrc = StyleA("a") \o <<"u">> \o StyleB("b") => src = <<"t", "u", "u">>
         /\ rootSrc = StyleB("b") \o <<"u">> \o StyleA("a") => src = <<"u", "u", "t">>
  /\ \A e \in log :
       /\ e.style = "A" => ~e.didB /\ settings.commonmarkRegex # "false"
       /\ e.style = "B" => settings.markdownItRegex # "false"
       /\ e.style = "B" /\ ~e.didB /\ settings.commonmarkRegex # "false"
            /\ e.kind # "return" => ~COMMONMARK_PATTERN(e.before).found

C9_Witness ==
  /\ pc = "done" /\ BothStyles
  /\ rootSrc = StyleB("b") \o <<"u">> \o StyleA("a")
  /\ src = <<"u", "u", "t">>
  /\ \E e \in log : e.style = "B" /\ e.depth = 1 /\ e.kind = "return"

\* C10: a read that fails at any depth leaves every frame: nothing is put in
\* place of the directive and state.src stays what it was before the rule
\* ran; so it does when the host supplies no document path.
C10_ReadFailureAtomic ==
  /\ pc = "failed" =>
       /\ src = rootSrc
       /\ stack = <<>>
       /\ \E e \in log : e.kind = "readfail" /\ e.after = <<>> /\ e.subst = <<>>
  /\ pc = "skipped" => src = rootSrc /\ log = {} /\ editorFile # "file"
  /\ editorFile # "file" => src = rootSrc /\ stack = <<>>

\* the read fails two frames down, after the root frame has already spliced
C10_Witness ==
  /\ pc = "failed"
  /\ \E e \in log : e.kind = "readfail" /\ e.depth >= 2
  /\ \E e \in log : e.kind \in {"notfound", "return"} /\ e.depth = 1 /\ e.after # rootSrc

\* C4: when the expander has returned, the content holds no directive of an
\* enabled style.
C4_FixedPoint ==
  pc = "done" =>
    /\ commonmarkEnabled(settings) => ~COMMONMARK_PATTERN(src).found
    /\ markdownItEnabled(settings) => ~MARKDOWN_IT_PATTERN(src).found

\* C3: every expansion terminates, and the recursion is never deeper than the
\* number of existing files plus one.  The expander is deterministic while
\* its reads succeed, so it terminates only if no call stack (the contents,
\* loops and pending directives of all frames) ever recurs in a run.
C3_Terminates ==
  /\ pc = "running" => stack \notin visited
  /\ Len(stack) <= Cardinality({n \in Names : fs[n].exists}) + 1

(***************************************************************************)
(* Properties of the Range Selector                                        *)
(***************************************************************************)
\* lines lo..hi (1-indexed, both inclusive) of a text, joined by "\n"
LinesFromTo(text, lo, hi) ==
  LET lines == SplitLines(text)
      last == IF hi > Len(lines) THEN Len(lines) ELSE hi
  IN IF last < lo THEN <<>> ELSE Join(SubSeq(lines, lo, last), <<"\n">>)

LineRange ==
  /\ slc.applied
  /\ Len(slc.startSpec) = 1
  /\ Len(slc.endSpec) = 1
  /\ slc.startSpec[1] >= 1

\* C6 as stated: with a start line S and an end line E and no word parts, the
\* selection is lines S .. E-1.
C6_ExclusiveEnd ==
  LineRange =>
    slc.result = LinesFromTo(slc.content, slc.startSpec[1], slc.endSpec[1] - 1)

\* C6 as amended: the selection is lines S .. E, both inclusive; E = S selects
\* line S, as an omitted end does, and E < S selects nothing.
C6_InclusiveEnd ==
  /\ LineRange =>
       slc.result = LinesFromTo(slc.content, slc.startSpec[1], slc.endSpec[1])
  /\ slc.applied /\ Len(slc.startSpec) = 1 /\ slc.endSpec = <<>> /\ slc.startSpec[1] >= 1 =>
       slc.result = LinesFromTo(slc.content, slc.startSpec[1], slc.startSpec[1])

\* start "1", end "3" on a text of three lines: all three lines
C6_Witness ==
  /\ slc.applied
  /\ slc.startSpec = <<1>> /\ slc.endSpec = <<3>>
  /\ Len(SplitLines(slc.content)) = 3
  /\ slc.result = slc.content
  /\ SplitLines(slc.content)[3] = <<"a", " ", "b", " ", "c">>

RECURSIVE Words(_)
\* the words of a line: its maximal runs of non-white-space
Words(line) ==
  IF line = <<>> THEN <<>>
  ELSE IF IsWs(Head(line)) THEN Words(Tail(line))
  ELSE LET ws == {i \in 1..Len(line) : IsWs(line[i])}
           stop == IF ws = {} THEN Len(line) + 1 ELSE Min(ws)
       IN <<SubSeq(line, 1, stop - 1)>> \o Words(SubSeq(line, stop, Len(line)))

\* words [from, to) of a line, 0-based, joined by single spaces
WordsFromTo(line, from, to) ==
  LET w == Words(line)
      hi == IF to > Len(w) THEN Len(w) ELSE to
  IN IF hi <= from THEN <<>> ELSE Join(SubSeq(w, from + 1, hi), <<" ">>)

\* C7: word slicing touches only the boundary lines: a single selected line
\* gives its words [Ws, We) joined by single spaces; of several selected lines
\* the first loses its first Ws words, the last keeps its first We words and
\* the lines between are returned as they are; with Ws = 0 and no We nothing
\* is re-tokenised.
C7_WordSlicing ==
  slc.applied /\ slc.startSpec[1] >= 1 =>
    LET lines == SplitLines(slc.content)
        S == slc.startSpec[1]
        E == IF slc.endSpec = <<>> THEN S ELSE slc.endSpec[1]
        last == IF E > Len(lines) THEN Len(lines) ELSE E
        n == last - S + 1
        Ws == IF Len(slc.startSpec) > 1 THEN slc.startSpec[2] ELSE 0
        hasWe == Len(slc.endSpec) > 1
        We == IF hasWe THEN slc.endSpec[2] ELSE 0
        all == Len(lines[S]) + 1
    IN n >= 1 =>
         IF Ws = 0 /\ ~hasWe THEN slc.result = LinesFromTo(slc.content, S, E)
         ELSE IF n = 1
         THEN slc.result = WordsFromTo(lines[S], Ws, IF hasWe THEN We ELSE all)
         ELSE slc.result =
                Join(<<WordsFromTo(lines[S], Ws, all)>> \o SubSeq(lines, S + 1, last - 1)
                       \o <<IF hasWe THEN WordsFromTo(lines[last], 0, We) ELSE lines[last]>>,
                     <<"\n">>)

(***************************************************************************)
(* Properties of the frames                                                *)
(***************************************************************************)
NoDuplicates(q) == \A i, j \in 1..Len(q) : q[i] = q[j] => i = j

\* the frame at depth i holds the paths of the frames 1..i, in that order
ChainTo(i) == [j \in 1..i |-> stack[j].file]

\* C11: the processedFiles of the frame expanding a file is the sequence of
\* paths from the root document down to that file, in order and without
\* duplicates; every directive a frame resolves sees that same sequence, and
\* no step (a call, a return, a substitution) changes the processedFiles of a
\* frame that stays on the stack.
C11_ProcessedSet ==
  /\ [](/\ \A i \in 1..Len(stack) :
             /\ stack[i].processedFiles = ChainTo(i)
             /\ NoDuplicates(stack[i].processedFiles)
        /\ stack # <<>> => stack[1].file = RootFile
        /\ \A e \in log :
             /\ e.processedFiles = e.ancestors
             /\ Len(e.ancestors) = e.depth
             /\ e.ancestors[e.depth] = e.parent
             /\ e.ancestors[1] = RootFile
             /\ NoDuplicates(e.processedFiles))
  /\ [][\A i \in 1..Len(stack) :
          i <= Len(stack') => stack'[i].processedFiles = stack[i].processedFiles]_vars

\* the root has had one child return and is two calls deep in another
C11_Witness ==
  /\ Len(stack) = 3
  /\ \E e \in log : e.kind = "return" /\ e.depth = 1
  /\ Top.processedFiles = <<RootFile, PathOf("b"), PathOf("c")>>


(***************************************************************************)
(* Properties of the order of slicing and expansion                        *)
(***************************************************************************)
\* a directive of an enabled style is left in the text
HasDirective(text) ==
  \/ commonmarkEnabled(settings) /\ COMMONMARK_PATTERN(text).found
  \/ markdownItEnabled(settings) /\ MARKDOWN_IT_PATTERN(text).found

\* the range of the directive m applied to the file as it is on disk
SliceOfFile(file, m) == sliceLines(fs[file[2]].content, m.start, m.end)

\* C12: the range of a directive is applied to the file's content as read,
\* and execute is called on the selected slice only: a frame starts from the
\* slice of the unexpanded file, a slice without directives comes back as it
\* is, and a directive of the child outside the selected lines or words is
\* never resolved (no existence check, no message, no read).
C12_SliceBeforeExpand ==
  /\ [](/\ \A e \in log :
             e.kind = "read" =>
               /\ e.raw = fs[e.child[2]].content
               /\ e.subst = SliceOfFile(e.child, e.m)
        /\ \A i \in 2..Len(stack) :
             /\ stack[i - 1].originalContent = fs[stack[i].file[2]].content
             /\ ~HasDirective(SliceOfFile(stack[i].file, stack[i - 1].m)) =>
                  stack[i].content = SliceOfFile(stack[i].file, stack[i - 1].m)
        /\ \A e \in log :
             e.kind = "return" /\ ~HasDirective(SliceOfFile(e.child, e.m)) =>
               e.raw = SliceOfFile(e.child, e.m)
        /\ rootSrc = <<":", "(", "a", "#L2", ")">>
             /\ fs["a"].content = StyleA("b") \o <<"\n">> \o <<"u", " ", "t">> =>
               \A e \in log : e.child # PathOf("b")
        /\ rootSrc = <<"!!!", "include", "(", "a", " ", "#L1.1-1.2", ")", "!!!">>
             /\ fs["a"].content = <<" ", "t", " ", "u", "\n">> \o StyleB("x") =>
               \A e \in log : e.child # PathOf("x"))
  /\ [][Len(stack') = Len(stack) + 1 /\ Len(stack) >= 1 =>
          stack'[Len(stack')].content =
            SliceOfFile(stack'[Len(stack')].file, stack'[Len(stack)].m)]_vars

\* line 2 of a file is included whose line 1 holds a directive for a file
\* that exists: the run ends without that directive having been resolved
C12_Witness ==
  /\ pc = "done"
  /\ rootSrc = <<":", "(", "a", "#L2", ")">>
  /\ fs["a"].content = StyleA("b") \o <<"\n">> \o <<"u", " ", "t">>
  /\ fs["b"].exists
  /\ \E e \in log : e.kind = "return" /\ e.child = PathOf("a") /\ e.raw = <<"u", " ", "t">>


(***************************************************************************)
(* Properties of the splice                                                *)
(***************************************************************************)
\* the steps that put a substitution into the content of a frame
Splices == {e \in log : e.kind \in {"notfound", "circular", "return"}}

\* C13: a resolution step replaces the matched span [offset, offset+length)
\* of the parent content by the substitution and nothing else: the text
\* before the offset and the text after the span are kept as they were, in
\* order, so the directives not yet processed stay; and the span is the first
\* match of a scan of the whole content from its beginning.
C13_SpliceFrame ==
  /\ \A e \in Splices :
       LET offset == e.m.index
           length == e.m.length
           tail == Len(e.before) - (offset + length) + 1
       IN /\ e.m.found
          /\ offset >= 1 /\ length >= 1 /\ tail >= 0
          /\ Len(e.after) = (offset - 1) + Len(e.subst) + tail
          /\ \A k \in 1..(offset - 1) : e.after[k] = e.before[k]
          /\ \A k \in 1..Len(e.subst) : e.after[offset - 1 + k] = e.subst[k]
          /\ \A k \in 1..tail :
               e.after[offset - 1 + Len(e.subst) + k] = e.before[offset + length - 1 + k]
          /\ e.m = Exec(e.style, e.before)
          /\ ~Exec(e.style, SubSeq(e.before, 1, offset - 1)).found
  /\ pc = "running" =>
       \A i \in 1..Len(stack) :
         \/ stack[i].content = (IF i = 1 THEN rootSrc
                                ELSE SliceOfFile(stack[i].file, stack[i - 1].m))
         \/ \E e \in Splices : e.ancestors = ChainTo(i) /\ e.after = stack[i].content
  /\ pc = "done" /\ BothStyles /\ rootSrc = StyleA("x") \o <<"\n">> \o StyleA("a")
       /\ ~fs["a"].exists =>
         \E e \in Splices :
           /\ e.child = PathOf("x")
           /\ SubSeq(e.after, Len(e.after) - 3, Len(e.after)) = StyleA("a")

\* the Style A directive at the end of the root is resolved first and the
\* Style B directive in front of its span is kept as it was; the next scan,
\* from the beginning of the new content, resolves it at a lower offset
C13_Witness ==
  \E e1, e2 \in Splices :
    /\ e1.kind = "return" /\ e1.style = "A" /\ e1.depth = 1
    /\ e1.before = StyleB("b") \o <<"u">> \o StyleA("a")
    /\ e1.after = StyleB("b") \o <<"u">> \o e1.subst
    /\ e2.kind = "return" /\ e2.style = "B" /\ e2.depth = 1
    /\ e2.before = e1.after
    /\ e2.m.index < e1.m.index
    /\ e2.after = e2.subst \o <<"u">> \o e1.subst

====
